---- MODULE Spec2Model ----
(***************************************************************************)
(* Model of the document upload protocol of the Superpowered TS SDK:       *)
(* DocumentAPI.uploadDocument (src/src/documents.ts) on a client built by  *)
(* SuperpoweredApiClient (src/src/client.ts).                              *)
(*                                                                         *)
(* An invocation runs in three synchronous segments separated by its two   *)
(* awaits: the call up to the negotiation POST, the continuation after the *)
(* POST settles (which issues the direct PUT), and the continuation after  *)
(* the PUT settles.  A segment is one action; the remote service and the   *)
(* transfer endpoint choose how each request settles.                      *)
(***************************************************************************)
EXTENDS Integers, Sequences, FiniteSets, TLC

VARIABLES
    client,       \* the axiosInstance configuration made by the constructor
    pc,           \* pc[i]: where invocation i of uploadDocument stands
    args,         \* args[i]: the arguments invocation i was called with
    md5Hash,      \* md5Hash[i]: the local md5Hash of invocation i
    signedUrl,    \* signedUrl[i]: the local signedUrl of invocation i
    negotiation,  \* negotiation[i]: the promise of requestSignedFileUrl
    transfer,     \* transfer[i]: the promise of axios.put
    result,       \* result[i]: the promise uploadDocument returned
    sent,         \* sent[i]: the requests invocation i has issued, in order
    grants        \* how many signed URLs the service has granted so far

vars == <<client, pc, args, md5Hash, signedUrl, negotiation, transfer, result,
          sent, grants>>

(***************************************************************************)
(* Bounds of the model.                                                    *)
(***************************************************************************)
NumInvocations == 2

Invocations == 1..NumInvocations

(***************************************************************************)
(* JavaScript values, tagged by their type.                                *)
(***************************************************************************)
Undefined == [t |-> "undefined"]
Null == [t |-> "null"]
Str(s) == [t |-> "string", s |-> s]
Num(n) == [t |-> "number", n |-> n]
Bool(b) == [t |-> "boolean", b |-> b]
Arr(a) == [t |-> "array", a |-> a]
Obj(o) == [t |-> "object", o |-> o]
Buf(bytes) == [t |-> "buffer", bytes |-> bytes]

IsNullish(v) == v.t \in {"undefined", "null"}

\* v.k on a value that is not nullish: a missing property reads as undefined
Get(v, k) ==
    IF v.t = "object" /\ k \in DOMAIN v.o THEN v.o[k] ELSE Undefined

\* v?.k
OptGet(v, k) == IF IsNullish(v) THEN Undefined ELSE Get(v, k)

\* String.prototype.includes
StringIncludes(s, needle) ==
    \E k \in 0..(Len(s) - Len(needle)) : SubSeq(s, k + 1, k + Len(needle)) = needle

\* Array.prototype.includes with a string argument
ArrayIncludes(a, needle) == \E k \in 1..Len(a) : a[k] = Str(needle)

(***************************************************************************)
(* Promises and errors.  An error object has an identity: the id of the    *)
(* place that created it.                                                  *)
(***************************************************************************)
NoPromise == [state |-> "none"]
Pending == [state |-> "pending"]
Fulfilled(v) == [state |-> "fulfilled", value |-> v]
Rejected(e) == [state |-> "rejected", reason |-> e]

NoResponse == [t |-> "undefined"]
Response(status, data) == [t |-> "response", status |-> status, data |-> data]

AxiosError(id, response) ==
    [id |-> id, response |-> response, name |-> "AxiosError", isAxiosError |-> TRUE]
PlainError(id) ==
    [id |-> id, response |-> NoResponse, name |-> "Error", isAxiosError |-> FALSE]
TypeError(id) ==
    [id |-> id, response |-> NoResponse, name |-> "TypeError", isAxiosError |-> FALSE]

(***************************************************************************)
(* client.ts: the constructor builds the authenticated transport.          *)
(***************************************************************************)
\* Buffer.from(s).toString("base64"), on the credentials the model draws
Base64(s) ==
    CASE s = "user:pass" -> "dXNlcjpwYXNz"
      [] s = "alice:s3cret" -> "YWxpY2U6czNjcmV0"

DefaultBaseURL == "https://api.superpowered.ai/v1"

\* new SuperpoweredApiClient(username, password, baseURL): an omitted
\* baseURL (Undefined) takes the default
CreateClient(username, password, baseURL) ==
    [baseURL |-> IF baseURL.t = "undefined" THEN Str(DefaultBaseURL) ELSE baseURL,
     headers |-> ("Authorization" :> ("Basic " \o Base64(username \o ":" \o password)))
                 @@ ("Accept" :> "application/json")
                 @@ ("Content-Type" :> "application/json")]

\* this.axiosInstance.post(url, data)
InstancePost(cl, url, data) ==
    [data |-> data, baseURL |-> cl.baseURL, headers |-> cl.headers,
     url |-> Str(url), via |-> "axiosInstance", method |-> "POST"]

\* axios.put(url, data, {headers}) on the library's global instance
AxiosPut(url, data, headers) ==
    [data |-> data, baseURL |-> Undefined, headers |-> headers,
     url |-> url, via |-> "axios", method |-> "PUT"]

(***************************************************************************)
(* documents.ts: the pieces of uploadDocument.                             *)
(***************************************************************************)
\* crypto.createHash("md5").update(fileBuffer).digest("base64"), on the
\* buffers the model draws
md5Base64(bytes) ==
    CASE bytes = "" -> "1B2M2Y8AsgTpgAmY7PhCfg=="
      [] bytes = "a" -> "DMF1ucDxtqgxw5niaXcmYQ=="
      [] bytes = "%PDF-1.4" -> "kUJAElMZKRx8t+cS5BmyVA=="

\* ComputeMd5Hash with the bug of skipping the hash of an empty buffer
ComputeMd5HashSkippingEmpty(fileBuffer) ==
    IF fileBuffer.bytes = "" THEN Str("") ELSE Str(md5Base64(fileBuffer.bytes))

ComputeMd5Hash(fileBuffer) == Str(md5Base64(fileBuffer.bytes))

\* the path requestSignedFileUrl posts to
SignedUrlPath(knowledgeBaseId) ==
    "/knowledge_bases/" \o knowledgeBaseId \o "/documents/request_signed_file_url"

\* NegotiationData with the bug of defaulting the two flags to false
\* (options?.isUpdate ?? false)
NegotiationDataWithDefaults(fileName, hash, options) ==
    Obj([method |-> Str("PUT"),
         filename |-> Str(fileName),
         encoded_md5 |-> hash,
         link_to_source |-> OptGet(options, "linkToSource"),
         supp_id |-> OptGet(options, "suppId"),
         description |-> OptGet(options, "description"),
         is_update |-> IF IsNullish(OptGet(options, "isUpdate"))
                       THEN Bool(FALSE) ELSE OptGet(options, "isUpdate"),
         chunk_header |-> OptGet(options, "chunkHeader"),
         auto_context |-> IF IsNullish(OptGet(options, "autoContext"))
                          THEN Bool(FALSE) ELSE OptGet(options, "autoContext")])

\* the data uploadDocument hands to requestSignedFileUrl
NegotiationData(fileName, hash, options) ==
    Obj([method |-> Str("PUT"),
         filename |-> Str(fileName),
         encoded_md5 |-> hash,
         link_to_source |-> OptGet(options, "linkToSource"),
         supp_id |-> OptGet(options, "suppId"),
         description |-> OptGet(options, "description"),
         is_update |-> OptGet(options, "isUpdate"),
         chunk_header |-> OptGet(options, "chunkHeader"),
         auto_context |-> OptGet(options, "autoContext")])

\* the request requestSignedFileUrl issues on the authenticated transport
NegotiationRequest(cl, a, hash) ==
    InstancePost(cl, SignedUrlPath(a.knowledgeBaseId),
                 NegotiationData(a.fileName, hash, a.options))

\* PutRequest with the bug of leaving out the integrity header
PutRequestWithoutDigest(cl, url, fileBuffer, hash) ==
    AxiosPut(url, fileBuffer, ("Content-Type" :> "application/octet-stream"))

\* PutRequest with the bug of reusing the first URL the service granted
PutRequestCachedUrl(cl, url, fileBuffer, hash) ==
    AxiosPut(Str("https://up.example/1"), fileBuffer,
             ("Content-MD5" :> hash.s) @@ ("Content-Type" :> "application/octet-stream"))

\* PutRequest with the bug of going through the authenticated transport
\* (this.axiosInstance.put): the instance's base URL and default headers
\* apply, the call's headers taking precedence
PutRequestViaInstance(cl, url, fileBuffer, hash) ==
    [data |-> fileBuffer, baseURL |-> cl.baseURL,
     headers |-> ("Content-MD5" :> hash.s)
                 @@ ("Content-Type" :> "application/octet-stream") @@ cl.headers,
     url |-> url, via |-> "axiosInstance", method |-> "PUT"]

\* the direct transfer: axios.put(signedUrl, fileBuffer, {headers})
PutRequest(cl, url, fileBuffer, hash) ==
    AxiosPut(url, fileBuffer,
             ("Content-MD5" :> hash.s) @@ ("Content-Type" :> "application/octet-stream"))

\* SuccessResult with the bug of expecting 201 Created
SuccessResultCreated(res) == Obj([success |-> Bool(res.status = 201)])

\* return { success: res.status === 200 }
SuccessResult(res) == Obj([success |-> Bool(res.status = 200)])

DuplicateSignature == "already exists in knowledge base"

\* error.response?.data?.error
ResponseError(error) ==
    IF error.response.t = "undefined" THEN Undefined
    ELSE OptGet(error.response.data, "error")

\* IncludesCall with the bug of comparing the whole message (===) instead
\* of searching it
IncludesCallExactMatch(e) ==
    CASE IsNullish(e) -> "false"
      [] e.t = "string" -> IF e.s = DuplicateSignature THEN "true" ELSE "false"
      [] e.t = "array" ->
            IF ArrayIncludes(e.a, DuplicateSignature) THEN "true" ELSE "false"
      [] OTHER -> "TypeError"

\* e?.includes("already exists in knowledge base"): "true", "false", or
\* "TypeError" when e has no includes method to call
IncludesCall(e) ==
    CASE IsNullish(e) -> "false"
      [] e.t = "string" ->
            IF StringIncludes(e.s, DuplicateSignature) THEN "true" ELSE "false"
      [] e.t = "array" ->
            IF ArrayIncludes(e.a, DuplicateSignature) THEN "true" ELSE "false"
      [] OTHER -> "TypeError"

\* the condition of the if in the catch block
CatchCondition(error) ==
    IF ~error.isAxiosError THEN "false" ELSE IncludesCall(ResponseError(error))

\* the object the catch block returns for a duplicate
ConflictResult(error) ==
    Obj([success |-> Bool(FALSE),
         existingDocumentId |-> Get(error.response.data, "existing_document_id"),
         errorMessage |-> Get(error.response.data, "error")])

\* CatchOutcome with the bug of swallowing every other error into a
\* returned failure instead of rethrowing it
CatchOutcomeSwallowed(i, error) ==
    CASE CatchCondition(error) = "true" -> Fulfilled(ConflictResult(error))
      [] OTHER -> Fulfilled(Obj([success |-> Bool(FALSE)]))

\* how the catch block settles the promise of invocation i
CatchOutcome(i, error) ==
    CASE CatchCondition(error) = "true" -> Fulfilled(ConflictResult(error))
      [] CatchCondition(error) = "false" -> Rejected(error)
      [] OTHER -> Rejected(TypeError(<<i, "catch">>))

(***************************************************************************)
(* What the caller and the two remote endpoints may supply.                *)
(***************************************************************************)
Credentials == {<<"user", "pass">>, <<"alice", "s3cret">>}
BaseURLs == {Undefined, Str("http://localhost:8080/v1")}

KnowledgeBaseIds == {"kb_1", "kb_2"}
FileBuffers == {Buf(""), Buf("a"), Buf("%PDF-1.4")}
FileNames == {"report.pdf", "notes.txt"}
OptionSets ==
    {Undefined,
     Obj([description |-> Str("quarterly report"), isUpdate |-> Bool(TRUE)]),
     Obj([description |-> Str(""), isUpdate |-> Bool(FALSE),
          linkToSource |-> Str("https://src.example/r"), suppId |-> Str("s-1"),
          chunkHeader |-> Str("header"), autoContext |-> Bool(TRUE)])}

\* the n-th URL the service grants: every grant is a new URL
GrantedUrl(n) == Str("https://up.example/" \o ToString(n))

DuplicateBody ==
    Obj([error |-> Str("Document already exists in knowledge base"),
         existing_document_id |-> Str("doc_123")])

\* bodies the service may answer the negotiation with, after n grants
NegotiationBodies(n) ==
    {Obj([temporary_url |-> GrantedUrl(n + 1)]),
     Obj([message |-> Str("accepted")]),
     Null}

\* errors the authenticated transport may raise for the negotiation of i
NegotiationErrors(i) ==
    {AxiosError(<<i, "post">>, NoResponse),
     AxiosError(<<i, "post">>, Response(403, Obj([error |-> Str("Forbidden")]))),
     AxiosError(<<i, "post">>, Response(404, Str("Not Found"))),
     AxiosError(<<i, "post">>, Response(409, DuplicateBody))}

\* the library's default validateStatus: 2xx fulfils, anything else rejects
ValidateStatus(status) == status >= 200 /\ status < 300

\* bodies the transfer endpoint may answer with
PutBodies ==
    {Str(""),
     Null,
     Str("<Error>already exists in knowledge base</Error>"),
     Obj([message |-> Str("no error field")]),
     Obj([error |-> Str("internal error")]),
     Obj([error |-> Str("")]),
     Obj([error |-> Str("already exists in knowledge")]),
     Obj([error |-> Str("already exists in knowledge base")]),
     DuplicateBody,
     Obj([error |-> Null, existing_document_id |-> Str("doc_123")]),
     Obj([error |-> Num(500)]),
     Obj([error |-> Bool(TRUE)]),
     Obj([error |-> Obj([message |-> Str("already exists in knowledge base")])]),
     Obj([error |-> Arr(<<Str("already exists in knowledge base")>>)]),
     Obj([error |-> Arr(<<Str("Document already exists in knowledge base")>>)])}

PutStatuses == {200, 201, 204, 403, 409, 500}

PutResponses == {Response(st, body) : st \in PutStatuses, body \in PutBodies}

\* errors axios.put may raise for invocation i: an error response, no
\* response at all, or an error that is no AxiosError
PutErrors(i) ==
    {AxiosError(<<i, "put">>, r) : r \in {x \in PutResponses : ~ValidateStatus(x.status)}}
    \cup {AxiosError(<<i, "put">>, NoResponse), PlainError(<<i, "put">>)}

NoArgs == [t |-> "undefined"]

Init ==
    /\ \E c \in Credentials, b \in BaseURLs : client = CreateClient(c[1], c[2], b)
    /\ pc = [i \in Invocations |-> "Start"]
    /\ args = [i \in Invocations |-> NoArgs]
    /\ md5Hash = [i \in Invocations |-> Undefined]
    /\ signedUrl = [i \in Invocations |-> Undefined]
    /\ negotiation = [i \in Invocations |-> NoPromise]
    /\ transfer = [i \in Invocations |-> NoPromise]
    /\ result = [i \in Invocations |-> NoPromise]
    /\ sent = [i \in Invocations |-> <<>>]
    /\ grants = 0

(***************************************************************************)
(* uploadDocument, segment by segment.                                     *)
(***************************************************************************)
\* UploadDocument with the bug of setting the integrity header on the
\* shared transport (this.axiosInstance.defaults.headers) instead of on
\* the PUT alone
UploadDocumentSettingDefaults(i, knowledgeBaseId, fileBuffer, fileName, options) ==
    LET a == [fileBuffer |-> fileBuffer, knowledgeBaseId |-> knowledgeBaseId,
              fileName |-> fileName, options |-> options]
        hash == ComputeMd5Hash(fileBuffer)
    IN  /\ pc[i] = "Start"
        /\ args' = [args EXCEPT ![i] = a]
        /\ md5Hash' = [md5Hash EXCEPT ![i] = hash]
        /\ sent' = [sent EXCEPT ![i] = Append(@, NegotiationRequest(client, a, hash))]
        /\ negotiation' = [negotiation EXCEPT ![i] = Pending]
        /\ result' = [result EXCEPT ![i] = Pending]
        /\ pc' = [pc EXCEPT ![i] = "AwaitNegotiation"]
        /\ client' = [client EXCEPT !.headers = ("Content-MD5" :> hash.s) @@ @]
        /\ UNCHANGED <<signedUrl, transfer, grants>>

\* the call: hash the buffer, issue the negotiation POST, await it
UploadDocument(i, knowledgeBaseId, fileBuffer, fileName, options) ==
    LET a == [fileBuffer |-> fileBuffer, knowledgeBaseId |-> knowledgeBaseId,
              fileName |-> fileName, options |-> options]
        hash == ComputeMd5Hash(fileBuffer)
    IN  /\ pc[i] = "Start"
        /\ args' = [args EXCEPT ![i] = a]
        /\ md5Hash' = [md5Hash EXCEPT ![i] = hash]
        /\ sent' = [sent EXCEPT ![i] = Append(@, NegotiationRequest(client, a, hash))]
        /\ negotiation' = [negotiation EXCEPT ![i] = Pending]
        /\ result' = [result EXCEPT ![i] = Pending]
        /\ pc' = [pc EXCEPT ![i] = "AwaitNegotiation"]
        /\ UNCHANGED <<client, signedUrl, transfer, grants>>

\* the POST answered with `data`: requestSignedFileUrl returns it, the
\* continuation reads temporary_url and issues the direct PUT.  Reading
\* temporary_url of null throws a TypeError out of uploadDocument.
NegotiationFulfilled(i, data) ==
    /\ pc[i] = "AwaitNegotiation"
    /\ negotiation' = [negotiation EXCEPT ![i] = Fulfilled(data)]
    /\ grants' = IF Get(data, "temporary_url") = Undefined THEN grants ELSE grants + 1
    /\ IF IsNullish(data)
       THEN /\ result' = [result EXCEPT ![i] = Rejected(TypeError(<<i, "temporary_url">>))]
            /\ pc' = [pc EXCEPT ![i] = "Done"]
            /\ UNCHANGED <<signedUrl, sent, transfer>>
       ELSE /\ signedUrl' = [signedUrl EXCEPT ![i] = Get(data, "temporary_url")]
            /\ sent' = [sent EXCEPT ![i] =
                   Append(@, PutRequest(client, signedUrl'[i], args[i].fileBuffer, md5Hash[i]))]
            /\ transfer' = [transfer EXCEPT ![i] = Pending]
            /\ pc' = [pc EXCEPT ![i] = "AwaitPut"]
            /\ UNCHANGED result
    /\ UNCHANGED <<client, args, md5Hash>>

\* NegotiationFailure with the bug of awaiting the negotiation inside the
\* try block, so that the catch block classifies its errors too
NegotiationFailureCaught(i, error) == CatchOutcome(i, error)

\* how a rejected negotiation settles uploadDocument: the await is outside
\* the try block, so the rejection passes through
NegotiationFailure(i, error) == Rejected(error)

\* NegotiationRejected with the bug of swallowing the error and going on to
\* the direct PUT
NegotiationRejectedThenPut(i, error) ==
    /\ pc[i] = "AwaitNegotiation"
    /\ negotiation' = [negotiation EXCEPT ![i] = Rejected(error)]
    /\ sent' = [sent EXCEPT ![i] =
           Append(@, PutRequest(client, Undefined, args[i].fileBuffer, md5Hash[i]))]
    /\ transfer' = [transfer EXCEPT ![i] = Pending]
    /\ pc' = [pc EXCEPT ![i] = "AwaitPut"]
    /\ UNCHANGED <<client, args, md5Hash, signedUrl, result, grants>>

\* the POST rejected with `error`
NegotiationRejected(i, error) ==
    /\ pc[i] = "AwaitNegotiation"
    /\ negotiation' = [negotiation EXCEPT ![i] = Rejected(error)]
    /\ result' = [result EXCEPT ![i] = NegotiationFailure(i, error)]
    /\ pc' = [pc EXCEPT ![i] = "Done"]
    /\ UNCHANGED <<client, args, md5Hash, signedUrl, transfer, sent, grants>>

\* the PUT answered with a status the library accepts
PutFulfilled(i, res) ==
    /\ pc[i] = "AwaitPut"
    /\ ValidateStatus(res.status)
    /\ transfer' = [transfer EXCEPT ![i] = Fulfilled(res)]
    /\ result' = [result EXCEPT ![i] = Fulfilled(SuccessResult(res))]
    /\ pc' = [pc EXCEPT ![i] = "Done"]
    /\ UNCHANGED <<client, args, md5Hash, signedUrl, negotiation, sent, grants>>

\* PutRejected with the bug of retrying a failed transfer once
PutRejectedRetry(i, error) ==
    /\ pc[i] = "AwaitPut"
    /\ IF Len(sent[i]) < 3
       THEN /\ sent' = [sent EXCEPT ![i] =
                   Append(@, PutRequest(client, signedUrl[i], args[i].fileBuffer, md5Hash[i]))]
            /\ UNCHANGED <<transfer, result, pc>>
       ELSE /\ transfer' = [transfer EXCEPT ![i] = Rejected(error)]
            /\ result' = [result EXCEPT ![i] = CatchOutcome(i, error)]
            /\ pc' = [pc EXCEPT ![i] = "Done"]
            /\ UNCHANGED sent
    /\ UNCHANGED <<client, args, md5Hash, signedUrl, negotiation, grants>>

\* the PUT rejected with `error`: the catch block
PutRejected(i, error) ==
    /\ pc[i] = "AwaitPut"
    /\ transfer' = [transfer EXCEPT ![i] = Rejected(error)]
    /\ result' = [result EXCEPT ![i] = CatchOutcome(i, error)]
    /\ pc' = [pc EXCEPT ![i] = "Done"]
    /\ UNCHANGED <<client, args, md5Hash, signedUrl, negotiation, sent, grants>>

(***************************************************************************)
(* One uploadDocument call on a freshly constructed client.                *)
(***************************************************************************)
Next ==
    \/ \E kb \in KnowledgeBaseIds, buf \in FileBuffers, name \in FileNames,
          opts \in OptionSets : UploadDocument(1, kb, buf, name, opts)
    \/ \E data \in NegotiationBodies(grants) : NegotiationFulfilled(1, data)
    \/ \E error \in NegotiationErrors(1) : NegotiationRejected(1, error)
    \/ \E res \in PutResponses : PutFulfilled(1, res)
    \/ \E error \in PutErrors(1) : PutRejected(1, error)

Spec == Init /\ [][Next]_vars

(***************************************************************************)
(* NumInvocations uploadDocument calls on the same client, their segments  *)
(* interleaved in any order.                                               *)
(***************************************************************************)
ConcurrentFileBuffers == {Buf("a"), Buf("%PDF-1.4")}

ConcurrentNegotiationErrors(i) ==
    {AxiosError(<<i, "post">>, Response(403, Obj([error |-> Str("Forbidden")])))}

ConcurrentPutResponses ==
    {Response(200, Str("")), Response(204, Str("")),
     Response(409, DuplicateBody),
     Response(500, Obj([error |-> Str("internal error")]))}

ConcurrentPutErrors(i) ==
    {AxiosError(<<i, "put">>, r) :
        r \in {x \in ConcurrentPutResponses : ~ValidateStatus(x.status)}}
    \cup {AxiosError(<<i, "put">>, NoResponse)}

NextConcurrent ==
    \E i \in Invocations :
        \/ \E buf \in ConcurrentFileBuffers :
              UploadDocument(i, "kb_1", buf, "report.pdf", Undefined)
        \/ NegotiationFulfilled(i, Obj([temporary_url |-> GrantedUrl(grants + 1)]))
        \/ \E error \in ConcurrentNegotiationErrors(i) : NegotiationRejected(i, error)
        \/ \E res \in ConcurrentPutResponses : PutFulfilled(i, res)
        \/ \E error \in ConcurrentPutErrors(i) : PutRejected(i, error)

SpecConcurrent == Init /\ [][NextConcurrent]_vars

(***************************************************************************)
(* NumInvocations uploadDocument calls on the same client, one after the   *)
(* other: a call starts once every earlier one has ended.                  *)
(***************************************************************************)
SequentialCalls ==
    {<<"kb_1", "report.pdf", Undefined>>,
     <<"kb_2", "notes.txt",
       Obj([description |-> Str("quarterly report"), isUpdate |-> Bool(TRUE)])>>}

SequentialPutResponses ==
    {Response(200, Str("")), Response(204, Str("")),
     Response(409, DuplicateBody),
     Response(500, Obj([error |-> Num(500)]))}

SequentialPutErrors(i) ==
    {AxiosError(<<i, "put">>, r) :
        r \in {x \in SequentialPutResponses : ~ValidateStatus(x.status)}}
    \cup {AxiosError(<<i, "put">>, NoResponse)}

NextSequential ==
    \E i \in Invocations :
        \/ /\ \A j \in 1..(i - 1) : pc[j] = "Done"
           /\ \E c \in SequentialCalls, buf \in FileBuffers :
                 UploadDocument(i, c[1], buf, c[2], c[3])
        \/ NegotiationFulfilled(i, Obj([temporary_url |-> GrantedUrl(grants + 1)]))
        \/ \E error \in ConcurrentNegotiationErrors(i) : NegotiationRejected(i, error)
        \/ \E res \in SequentialPutResponses : PutFulfilled(i, res)
        \/ \E error \in SequentialPutErrors(i) : PutRejected(i, error)

SpecSequential == Init /\ [][NextSequential]_vars

(***************************************************************************)
(* Concurrent calls whose remote calls all settle: a pending negotiation   *)
(* is eventually answered or fails, and so is a pending transfer; the      *)
(* event loop then runs the continuation.  Nothing obliges the caller to   *)
(* call.                                                                   *)
(***************************************************************************)
NegotiationSettles(i) ==
    \/ NegotiationFulfilled(i, Obj([temporary_url |-> GrantedUrl(grants + 1)]))
    \/ \E error \in ConcurrentNegotiationErrors(i) : NegotiationRejected(i, error)

PutSettles(i) ==
    \/ \E res \in ConcurrentPutResponses : PutFulfilled(i, res)
    \/ \E error \in ConcurrentPutErrors(i) : PutRejected(i, error)

SpecFair ==
    /\ SpecConcurrent
    /\ \A i \in Invocations : WF_vars(NegotiationSettles(i)) /\ WF_vars(PutSettles(i))

(***************************************************************************)
(* Properties.                                                             *)
(***************************************************************************)
\* the error is an HTTP error response whose body carries an `error`
\* message, a string, with the duplicate signature in it
HasDuplicateSignature(error) ==
    /\ error.isAxiosError
    /\ error.response.t = "response"
    /\ error.response.data.t = "object"
    /\ "error" \in DOMAIN error.response.data.o
    /\ error.response.data.o.error.t = "string"
    /\ StringIncludes(error.response.data.o.error.s, "already exists in knowledge base")

\* C1: when the direct PUT fails with an HTTP error response whose error
\* message contains "already exists in knowledge base", uploadDocument does
\* not throw: it returns success = false with existingDocumentId and
\* errorMessage copied from the body's existing_document_id and error.
C1_DuplicateIsConflict ==
    \A i \in Invocations :
        (transfer[i].state = "rejected" /\ HasDuplicateSignature(transfer[i].reason)) =>
            LET body == transfer[i].reason.response.data
            IN  result[i] =
                  Fulfilled(Obj([success |-> Bool(FALSE),
                                 existingDocumentId |->
                                     IF "existing_document_id" \in DOMAIN body.o
                                     THEN body.o.existing_document_id ELSE Undefined,
                                 errorMessage |-> body.o.error]))

\* a duplicate response with existing_document_id "doc_123" came back as a
\* returned Conflict value
C1_Witness ==
    \E i \in Invocations :
        /\ transfer[i].state = "rejected"
        /\ HasDuplicateSignature(transfer[i].reason)
        /\ transfer[i].reason.response.data = DuplicateBody
        /\ result[i].state = "fulfilled"
        /\ result[i].value.o.existingDocumentId = Str("doc_123")

\* C2: every direct-PUT failure without the duplicate signature (no
\* response, no error field, an error field without the substring or one
\* that is not a string) reaches the caller as the very error object the
\* transfer raised.
C2_OtherFailuresPropagate ==
    \A i \in Invocations :
        (transfer[i].state = "rejected" /\ ~HasDuplicateSignature(transfer[i].reason)) =>
            result[i] = Rejected(transfer[i].reason)

\* C3: a direct PUT is issued only after the negotiation of the same
\* invocation was answered successfully, and an invocation whose
\* negotiation failed issues none.
C3_PutOnlyAfterGrant ==
    \A i \in Invocations :
        /\ \A k \in 1..Len(sent[i]) :
              sent[i][k].method = "PUT" =>
                  /\ negotiation[i].state = "fulfilled"
                  /\ k > 1
                  /\ sent[i][1].method = "POST"
        /\ negotiation[i].state = "rejected" =>
              \A k \in 1..Len(sent[i]) : sent[i][k].method # "PUT"

\* the negotiation was refused with 403 and the invocation ended having
\* issued the negotiation request alone
C3_Witness ==
    \E i \in Invocations :
        /\ negotiation[i].state = "rejected"
        /\ negotiation[i].reason.response.t = "response"
        /\ negotiation[i].reason.response.status = 403
        /\ pc[i] = "Done"
        /\ Len(sent[i]) = 1

\* C4: when the direct PUT completes with status 200, uploadDocument
\* returns success = true and neither existingDocumentId nor errorMessage.
C4_Status200IsSuccess ==
    \A i \in Invocations :
        (transfer[i].state = "fulfilled" /\ transfer[i].value.status = 200) =>
            /\ result[i].state = "fulfilled"
            /\ result[i].value.t = "object"
            /\ DOMAIN result[i].value.o = {"success"}
            /\ result[i].value.o.success = Bool(TRUE)

\* the transfer endpoint answered 200 and the call has returned
C4_Witness ==
    \E i \in Invocations :
        /\ transfer[i].state = "fulfilled"
        /\ transfer[i].value.status = 200
        /\ pc[i] = "Done"
        /\ result[i].state = "fulfilled"

\* the three outcomes of a completed invocation
IsSuccessOutcome(r) ==
    /\ r.state = "fulfilled"
    /\ DOMAIN r.value.o = {"success"}
    /\ r.value.o.success = Bool(TRUE)

IsConflictOutcome(i, r) ==
    /\ r.state = "fulfilled"
    /\ DOMAIN r.value.o = {"success", "existingDocumentId", "errorMessage"}
    /\ r.value.o.success = Bool(FALSE)
    /\ transfer[i].state = "rejected"
    /\ transfer[i].reason.response.t = "response"
    /\ r.value.o.errorMessage = Get(transfer[i].reason.response.data, "error")
    /\ r.value.o.existingDocumentId =
           Get(transfer[i].reason.response.data, "existing_document_id")

IsFailureOutcome(r) == r.state = "rejected"

\* C5: a completed invocation ends as Success, as Conflict (success = false
\* with existingDocumentId and errorMessage from the server's duplicate
\* response) or as Failure (an error thrown): it never returns
\* success = false without the Conflict fields, whatever status the
\* transfer endpoint answers with.
C5_ThreeOutcomes ==
    \A i \in Invocations :
        pc[i] = "Done" =>
            \/ IsSuccessOutcome(result[i])
            \/ IsConflictOutcome(i, result[i])
            \/ IsFailureOutcome(result[i])

\* C6: within one invocation the digest of the caller's bytes is what the
\* negotiation request carries as encoded_md5, with the caller's fileName
\* as filename; the PUT goes to the temporary_url that negotiation
\* returned, its Content-MD5 header is that same digest and its body is the
\* caller's bytes.
C6_DigestAndUrlThreaded ==
    \A i \in Invocations :
        Len(sent[i]) >= 1 =>
            LET digest == md5Base64(args[i].fileBuffer.bytes)
            IN  /\ sent[i][1].data.o.encoded_md5 = Str(digest)
                /\ sent[i][1].data.o.filename = Str(args[i].fileName)
                /\ \A k \in 2..Len(sent[i]) :
                      /\ negotiation[i].state = "fulfilled"
                      /\ sent[i][k].url = Get(negotiation[i].value, "temporary_url")
                      /\ "Content-MD5" \in DOMAIN sent[i][k].headers
                      /\ sent[i][k].headers["Content-MD5"] = digest
                      /\ sent[i][k].headers["Content-MD5"] = sent[i][1].data.o.encoded_md5.s
                      /\ sent[i][k].data = args[i].fileBuffer

\* "report.pdf" with bytes %PDF-1.4 was negotiated and then PUT to the
\* granted URL under its digest
C6_Witness ==
    \E i \in Invocations :
        /\ Len(sent[i]) = 2
        /\ args[i].fileName = "report.pdf"
        /\ args[i].fileBuffer = Buf("%PDF-1.4")
        /\ sent[i][1].data.o.encoded_md5 = Str("kUJAElMZKRx8t+cS5BmyVA==")
        /\ sent[i][2].url = Str("https://up.example/1")
        /\ sent[i][2].headers["Content-MD5"] = "kUJAElMZKRx8t+cS5BmyVA=="

\* C7: when the negotiation fails, its error reaches the caller unchanged
\* as a thrown error; it is never turned into a returned Conflict value,
\* even when its response body carries the duplicate signature.
C7_NegotiationErrorPropagates ==
    \A i \in Invocations :
        negotiation[i].state = "rejected" => result[i] = Rejected(negotiation[i].reason)

\* a negotiation failed with the duplicate signature in its body, and the
\* invocation threw
C7_Witness ==
    \E i \in Invocations :
        /\ negotiation[i].state = "rejected"
        /\ HasDuplicateSignature(negotiation[i].reason)
        /\ pc[i] = "Done"
        /\ result[i].state = "rejected"

RequestCount(i, method) ==
    Cardinality({k \in 1..Len(sent[i]) : sent[i][k].method = method})

Rank(p) ==
    CASE p = "Start" -> 0
      [] p = "AwaitNegotiation" -> 1
      [] p = "AwaitPut" -> 2
      [] p = "Done" -> 3

\* C8: no retries and no way back: an invocation issues at most one
\* negotiation request and at most one direct PUT, never returns to an
\* earlier step, and issues no request once it has ended.
C8_NoRetries ==
    /\ [](\A i \in Invocations :
            RequestCount(i, "POST") <= 1 /\ RequestCount(i, "PUT") <= 1)
    /\ [][\A i \in Invocations :
            /\ Rank(pc'[i]) >= Rank(pc[i])
            /\ pc[i] = "Done" => (pc'[i] = "Done" /\ sent'[i] = sent[i])]_vars

\* a transfer failed and the invocation ended with that one PUT issued
C8_Witness ==
    \E i \in Invocations :
        /\ pc[i] = "Done"
        /\ transfer[i].state = "rejected"
        /\ RequestCount(i, "POST") = 1
        /\ RequestCount(i, "PUT") = 1

PutsOf(i) == {k \in 1..Len(sent[i]) : sent[i][k].method = "PUT"}

\* what a promise settled with, leaving out the identity of an error object
\* and the granted URL, which differ from one invocation to the next
Answer(p) ==
    CASE p.state = "rejected" ->
            [state |-> "rejected", response |-> p.reason.response, name |-> p.reason.name]
      [] p.state = "fulfilled" /\ Get(p.value, "temporary_url") # Undefined ->
            [state |-> "fulfilled", granted |-> TRUE]
      [] OTHER -> p

\* C9: under any interleaving of concurrent invocations on one client, the
\* PUT of an invocation uses the URL granted to that invocation and the
\* digest of its own bytes, no granted URL is used by two PUTs, and the
\* outcome of an invocation depends on nothing but its own arguments and
\* the answers to its own requests.
C9_InvocationsIndependent ==
    /\ \A i \in Invocations : \A k \in PutsOf(i) :
          /\ negotiation[i].state = "fulfilled"
          /\ sent[i][k].url = Get(negotiation[i].value, "temporary_url")
          /\ sent[i][k].headers["Content-MD5"] = md5Base64(args[i].fileBuffer.bytes)
    /\ \A i, j \in Invocations : \A k \in PutsOf(i), l \in PutsOf(j) :
          (i # j \/ k # l) => sent[i][k].url # sent[j][l].url
    /\ \A i, j \in Invocations :
          (/\ pc[i] = "Done" /\ pc[j] = "Done"
           /\ args[i] = args[j]
           /\ Answer(negotiation[i]) = Answer(negotiation[j])
           /\ Answer(transfer[i]) = Answer(transfer[j]))
          => Answer(result[i]) = Answer(result[j])

\* two invocations overlapped: the one granted the first URL is still
\* uploading while the one granted the second URL has already ended
C9_Witness ==
    \E i, j \in Invocations :
        /\ i # j
        /\ pc[i] = "AwaitPut"
        /\ sent[i][2].url = Str("https://up.example/1")
        /\ pc[j] = "Done"
        /\ Len(sent[j]) = 2
        /\ sent[j][2].url = Str("https://up.example/2")
        /\ result[j].state = "fulfilled"

\* C10: the direct PUT never goes through the authenticated transport: no
\* Authorization header, no base URL, only Content-MD5 and
\* Content-Type: application/octet-stream; the negotiation request always
\* goes through the transport configured with the client's Basic
\* credentials.
C10_PutBypassesAuth ==
    \A i \in Invocations : \A k \in 1..Len(sent[i]) :
        LET r == sent[i][k]
        IN  /\ r.method \in {"POST", "PUT"}
            /\ r.method = "PUT" =>
                  /\ r.via = "axios"
                  /\ r.baseURL = Undefined
                  /\ DOMAIN r.headers = {"Content-MD5", "Content-Type"}
                  /\ r.headers["Content-Type"] = "application/octet-stream"
            /\ r.method = "POST" =>
                  /\ r.via = "axiosInstance"
                  /\ r.baseURL = client.baseURL
                  /\ "Authorization" \in DOMAIN r.headers
                  /\ r.headers["Authorization"] = client.headers["Authorization"]
                  /\ r.headers["Authorization"] \in
                         {"Basic dXNlcjpwYXNz", "Basic YWxpY2U6czNjcmV0"}

\* both requests of an invocation were issued, the first with the client's
\* credentials
C10_Witness ==
    \E i \in Invocations :
        /\ Len(sent[i]) = 2
        /\ sent[i][1].headers["Authorization"] = "Basic YWxpY2U6czNjcmV0"
        /\ sent[i][2].method = "PUT"
        /\ sent[i][2].url # Undefined

\* the body's `error` field includes the duplicate signature the way the
\* catch block tests it: a string containing it, or an array holding it
ErrorFieldIncludesSignature(error) ==
    /\ error.isAxiosError
    /\ error.response.t = "response"
    /\ error.response.data.t = "object"
    /\ "error" \in DOMAIN error.response.data.o
    /\ \/ /\ error.response.data.o.error.t = "string"
          /\ StringIncludes(error.response.data.o.error.s, "already exists in knowledge base")
       \/ /\ error.response.data.o.error.t = "array"
          /\ \E k \in 1..Len(error.response.data.o.error.a) :
                error.response.data.o.error.a[k] = Str("already exists in knowledge base")

WireNames ==
    {<<"linkToSource", "link_to_source">>, <<"suppId", "supp_id">>,
     <<"description", "description">>, <<"isUpdate", "is_update">>,
     <<"chunkHeader", "chunk_header">>, <<"autoContext", "auto_context">>}

\* the caller supplied field k of options
Supplied(a, k) == a.options.t = "object" /\ k \in DOMAIN a.options.o

\* C12: the negotiation request always asks for method "PUT" and forwards
\* every optional field the caller supplied under its wire name with its
\* value unchanged; a field the caller did not supply carries no value,
\* and no field is given a default.
C12_OptionsForwarded ==
    \A i \in Invocations :
        Len(sent[i]) >= 1 =>
            LET body == sent[i][1].data
            IN  /\ body.t = "object"
                /\ DOMAIN body.o =
                       {"filename", "encoded_md5", "method"} \cup {w[2] : w \in WireNames}
                /\ body.o.method = Str("PUT")
                /\ \A w \in WireNames :
                      body.o[w[2]] =
                          IF Supplied(args[i], w[1])
                          THEN args[i].options.o[w[1]] ELSE Undefined

\* a call that supplied description and isUpdate alone: both went out,
\* the other four fields carry no value
C12_Witness ==
    \E i \in Invocations :
        /\ Len(sent[i]) >= 1
        /\ args[i].options.t = "object"
        /\ DOMAIN args[i].options.o = {"description", "isUpdate"}
        /\ sent[i][1].data.o.description = Str("quarterly report")
        /\ sent[i][1].data.o.is_update = Bool(TRUE)
        /\ sent[i][1].data.o.supp_id = Undefined
        /\ sent[i][1].data.o.auto_context = Undefined

\* C13: the digest depends on the file bytes alone: two invocations given
\* the same bytes send the same encoded_md5 and the same Content-MD5,
\* whatever their knowledgeBaseId, fileName and options and however earlier
\* invocations ended; the empty buffer gets the digest of empty content.
C13_DigestOfBytesAlone ==
    /\ \A i, j \in Invocations :
          (/\ Len(sent[i]) >= 1 /\ Len(sent[j]) >= 1
           /\ args[i].fileBuffer = args[j].fileBuffer)
          => /\ sent[i][1].data.o.encoded_md5 = sent[j][1].data.o.encoded_md5
             /\ \A k \in PutsOf(i), l \in PutsOf(j) :
                   sent[i][k].headers["Content-MD5"] = sent[j][l].headers["Content-MD5"]
    /\ \A i \in Invocations :
          (Len(sent[i]) >= 1 /\ args[i].fileBuffer = Buf("")) =>
              /\ sent[i][1].data.o.encoded_md5 = Str("1B2M2Y8AsgTpgAmY7PhCfg==")
              /\ \A k \in PutsOf(i) :
                    sent[i][k].headers["Content-MD5"] = "1B2M2Y8AsgTpgAmY7PhCfg=="

\* after an invocation that threw, a later one with the same (empty) bytes
\* but another knowledge base, file name and options has sent its PUT
C13_Witness ==
    \E i, j \in Invocations :
        /\ i < j
        /\ pc[i] = "Done"
        /\ result[i].state = "rejected"
        /\ Len(sent[i]) = 2
        /\ Len(sent[j]) = 2
        /\ args[i].fileBuffer = Buf("")
        /\ args[j].fileBuffer = Buf("")
        /\ args[i].knowledgeBaseId # args[j].knowledgeBaseId
        /\ args[i].fileName # args[j].fileName
        /\ args[i].options # args[j].options

\* the steps of one invocation: Start, DigestComputed (the negotiation is
\* awaited), UrlGranted and Uploading (the PUT is awaited), then the end
PcStepsInOrder ==
    \A i \in Invocations :
        pc'[i] # pc[i] =>
            <<pc[i], pc'[i]>> \in
                {<<"Start", "AwaitNegotiation">>, <<"AwaitNegotiation", "AwaitPut">>,
                 <<"AwaitNegotiation", "Done">>, <<"AwaitPut", "Done">>}

\* every invocation that was called ends, its steps taken in order
TerminatesInOrder ==
    /\ [][PcStepsInOrder]_vars
    /\ \A i \in Invocations : (pc[i] # "Start") ~> (pc[i] = "Done")

\* C14: when every remote call eventually responds or fails, every
\* invocation eventually reaches Succeeded, ConflictDetected or Failed,
\* passing through DigestComputed, UrlGranted and Uploading in that order
\* and never from Start straight to Uploading.
C14_ReachesNamedTerminal ==
    /\ [][PcStepsInOrder]_vars
    /\ \A i \in Invocations :
          (pc[i] # "Start") ~>
              (/\ pc[i] = "Done"
               /\ \/ IsSuccessOutcome(result[i])
                  \/ IsConflictOutcome(i, result[i])
                  \/ IsFailureOutcome(result[i]))

\* a request with the granted URL left out, which differs from one grant
\* to the next
WithoutUrl(r) == [r EXCEPT !.url = Undefined]

\* invocation j did what the first invocation, made on the freshly
\* constructed client, did with the same arguments and the same answers
AsOnFreshClient(j) ==
    (args[1] = args[j] /\ Len(sent[1]) >= 1 /\ Len(sent[j]) >= 1) =>
        /\ sent[1][1] = sent[j][1]
        /\ (Len(sent[1]) = 2 /\ Len(sent[j]) = 2) =>
              WithoutUrl(sent[1][2]) = WithoutUrl(sent[j][2])
        /\ (/\ pc[1] = "Done" /\ pc[j] = "Done"
            /\ Answer(negotiation[1]) = Answer(negotiation[j])
            /\ Answer(transfer[1]) = Answer(transfer[j]))
           => Answer(result[1]) = Answer(result[j])

\* C15: uploadDocument keeps no state across invocations: whatever the
\* outcome, no step changes the client's transport configuration (base
\* URL, Authorization header) or the caller's buffer and options, so a
\* later invocation behaves as it would on a freshly constructed client.
C15_NoStateAcrossInvocations ==
    /\ [](\A j \in Invocations : AsOnFreshClient(j))
    /\ [][/\ client' = client
          /\ \A i \in Invocations : pc[i] # "Start" => args'[i] = args[i]]_vars

\* the first invocation threw; a later one with the same arguments and the
\* same answers has ended too
C15_Witness ==
    \E j \in Invocations :
        /\ j > 1
        /\ pc[1] = "Done"
        /\ pc[j] = "Done"
        /\ args[1] = args[j]
        /\ result[1].state = "rejected"
        /\ Len(sent[1]) = 2
        /\ Len(sent[j]) = 2
        /\ Answer(transfer[1]) = Answer(transfer[j])

====
